---------------------------- MODULE Spec2Model ----------------------------
(* A model of the RTR client of package rtr (rtr/rtr.go): one Client, one  *)
(* call of Dial, the frame reader goroutine (readData), the poller         *)
(* goroutine (loop) and the TCP connection they share. Under Concurrent,    *)
(* other Clients of the process call Dial as well, which shows only in the  *)
(* package variable protocolVersion.                                        *)
(*                                                                         *)
(* Modelling conventions                                                   *)
(*  - errChannel is unbuffered: a send blocks the sender (rdPc = "send")   *)
(*    until Dial's single receive takes the value.                         *)
(*  - connection.Write is one call of net.Conn: the octets one call puts   *)
(*    on the wire are contiguous (net.Conn serialises concurrent calls);   *)
(*    a call either writes the whole buffer or fails after a prefix of it. *)
(*  - connection.Read may fail at any time while the connection is open    *)
(*    and always fails once Dial has closed it.                            *)
(*  - an unrecovered panic in a goroutine (nil dereference, slice bounds,  *)
(*    makeslice) ends the whole process: crashed, and nothing moves.       *)
EXTENDS Integers, Sequences, FiniteSets, TLC

---------------------------------------------------------------------------
(* Program constants (rtr.go, const block)                                 *)
sERIALNOTIFY == 0
sERIALQUERY == 1
rESETQUERY == 2
cACHERESPONSE == 3
iPv4PREFIX == 4
iPv6PREFIX == 6
eNDOFDATA == 7
cACHERESET == 8
rOUTERKEY == 9
eRRORREPORT == 10
hEADERSIZE == 8
sERIALQUERYSIZE == 12
rESETQUERYSIZE == 8
mAXSIZE == 65536

\* A nil *uint16 / *uint32 of the Client record.
Nil == -1

---------------------------------------------------------------------------
(* Bounds of the model                                                     *)
\* PDUs whose header the frame reader may read in one session.
MaxPDUs == 2
\* Times the poller's sleep may end in one session.
MaxPolls == 1

(* Inputs                                                                  *)
\* The version passed to Dial, and the version octet of inbound PDUs.
Versions == {0, 1}
\* Session ids the cache may put in header octets 2-3.
SessionIDs == {1, 2}
\* Values of the first four payload octets (a serial, or the length of the
\* erroneous PDU of an Error Report).
Words == {7, 9}
\* PDU types of inbound headers; 5 is not assigned.
PduTypes == {sERIALNOTIFY, cACHERESPONSE, iPv4PREFIX, 5, iPv6PREFIX,
             eNDOFDATA, cACHERESET, rOUTERKEY, eRRORREPORT}
\* The length each case of readData's switch passes to checkLength as the
\* expected one; 0 for the cases that check no length.
ExpectedLength(type) ==
  CASE type = sERIALNOTIFY -> 12
    [] type = cACHERESPONSE -> 8
    [] type = iPv4PREFIX -> 20
    [] type = iPv6PREFIX -> 32
    [] type = eNDOFDATA -> 12
    [] type = cACHERESET -> 8
    [] OTHER -> 0
\* Values of the length field of an inbound header of `type`: the length
\* expected for the type, and for every type a length shorter than a
\* header, a bare header, the 24 octets of a version-1 End of Data, and a
\* length above mAXSIZE.
Lengths(type) == {4, 8, 24, 65537} \cup (IF ExpectedLength(type) = 0 THEN {}
                                        ELSE {ExpectedLength(type)})
\* Octets a failing Write may have put on the wire before it failed.
PartialWrites == {4}
\* Values the text-length field of an Error Report may hold.
TextLens == {0, 8}

---------------------------------------------------------------------------
VARIABLES
  SessionID,        \* client.SessionID: Nil or the adopted session id
  SerialNo,         \* client.SerialNo: Nil or the serial of the last End of Data
  protocolVersion,  \* package variable protocolVersion
  conn,             \* client.connection: "none", "open", "closed"
  dialPc,           \* where Dial is
  version,          \* Dial's parameter version
  status,           \* Dial's local status (the value received from errChannel)
  result,           \* the value Dial returned
  rdPc,             \* where readData is
  rdErr,            \* the error readData is sending on comm
  rdAfter,          \* where readData goes on once the send is taken
  cur,              \* headerbuffer as decoded: version, type, session id, length
  buffer,           \* the payload buffer: its size and its first word
  rdOut,            \* the query readData is writing
  nread,            \* headers read since the initial state
  pollPc,           \* where loop is
  pollOut,          \* the query loop is writing
  npolls,           \* sleeps ended since the initial state
  lastWrite,        \* the last Write call on the connection and its outcome
  lastEvent,        \* the arguments of the last call of the callback
  ncalls,           \* calls of the callback since the initial state
  held,             \* the Client value of the first call, kept by the callback
  crashed           \* a goroutine panicked: the process is gone

vars == <<SessionID, SerialNo, protocolVersion, conn, dialPc, version, status, result,
          rdPc, rdErr, rdAfter, cur, buffer, rdOut, nread,
          pollPc, pollOut, npolls, lastWrite, lastEvent, ncalls, held, crashed>>

clientVars == <<SessionID, SerialNo, protocolVersion>>
dialVars == <<dialPc, version, status, result>>
readerVars == <<rdPc, rdErr, rdAfter, cur, buffer, rdOut, nread>>
pollerVars == <<pollPc, pollOut, npolls>>
callbackVars == <<lastEvent, ncalls, held>>

NoPDU == [type |-> -1, sid |-> 0, length |-> 0, ver |-> 0]
NoQuery == [type |-> -1, ver |-> 0, sid |-> 0, length |-> 0, serial |-> 0, off |-> 0]
NoWrite == [by |-> "none", type |-> -1, ver |-> 0, sid |-> 0, serial |-> 0,
            from |-> 0, n |-> 0, size |-> 0, err |-> FALSE]
NoEvent == [desc |-> "none", prefix |-> FALSE, sid |-> Nil, serial |-> Nil]

Init ==
  /\ SessionID = Nil
  /\ SerialNo = Nil
  /\ protocolVersion = 0
  /\ conn = "none"
  /\ dialPc = "init"
  /\ version = 0
  /\ status = "none"
  /\ result = "none"
  /\ rdPc = "idle"
  /\ rdErr = "none"
  /\ rdAfter = "none"
  /\ cur = NoPDU
  /\ buffer = [size |-> 0, word0 |-> 0]
  /\ rdOut = NoQuery
  /\ nread = 0
  /\ pollPc = "idle"
  /\ pollOut = NoQuery
  /\ npolls = 0
  /\ lastWrite = NoWrite
  /\ lastEvent = NoEvent
  /\ ncalls = 0
  /\ held = NoEvent
  /\ crashed = FALSE

---------------------------------------------------------------------------
(* Outbound queries and Write                                              *)

\* resetQuery's buffer: version, type 2, two zero octets, length 8.
ResetQueryPDU ==
  [type |-> rESETQUERY, ver |-> protocolVersion, sid |-> 0,
   length |-> rESETQUERYSIZE, serial |-> 0, off |-> 0]

\* A mutant of WriteCalls: the header and the rest in two calls of Write.
WriteCallsSplit(size) ==
  IF size > hEADERSIZE THEN <<hEADERSIZE, size>> ELSE <<size>>

\* The calls of Write that send a query of `size` octets, as the offsets
\* where they end: serialQuery and resetQuery pass the whole buffer to one
\* call.
WriteCalls(size) == <<size>>

\* The end of the call of Write that starts at offset `off`.
CallEnd(q) ==
  LET calls == WriteCalls(q.length)
      i == CHOOSE k \in 1..Len(calls) : calls[k] > q.off /\
             \A j \in 1..(k-1) : calls[j] <= q.off
  IN  calls[i]

\* One call of connection.Write by `by` for the octets q.off..CallEnd(q)-1
\* of query q, which writes n octets and fails or not.
WriteRecord(by, q, n, failed) ==
  [by |-> by, type |-> q.type, ver |-> q.ver, sid |-> q.sid, serial |-> q.serial,
   from |-> q.off, n |-> n, size |-> q.length, err |-> failed]

\* The outcomes of one call of Write: on an open connection all octets, or
\* an error after fewer; on a closed connection an error and no octet.
WriteOutcomes(by, q) ==
  IF conn = "open"
    THEN {WriteRecord(by, q, CallEnd(q) - q.off, FALSE)} \cup
         {WriteRecord(by, q, n, TRUE) :
            n \in {m \in PartialWrites : m < CallEnd(q) - q.off}}
    ELSE {WriteRecord(by, q, 0, TRUE)}

\* n != size || err != nil, for the call as a whole query.
QueryFailed(w) == w.err

\* The query has octets left for a further call of Write.
MoreCalls(q, w) == ~w.err /\ w.from + w.n < q.length

---------------------------------------------------------------------------
(* Dial                                                                    *)

\* Dial's net.Dial: the client is reset, the version stored; the connection
\* opens, or Dial returns the connect error.
DialConnect ==
  /\ ~crashed
  /\ dialPc = "init"
  /\ SessionID' = Nil
  /\ SerialNo' = Nil
  /\ version' \in Versions
  /\ protocolVersion' = version'
  /\ \/ /\ conn' = "open"
        /\ dialPc' = "connected"
        /\ result' = result
     \/ /\ conn' = conn
        /\ dialPc' = "returned"
        /\ result' = "connect error"
  /\ UNCHANGED <<status, readerVars, pollerVars, lastWrite, callbackVars, crashed>>

\* client.resetQuery() of Dial, its result dropped.
DialResetQuery ==
  /\ ~crashed
  /\ dialPc = "connected"
  /\ \E w \in WriteOutcomes("dial", ResetQueryPDU) : lastWrite' = w
  /\ dialPc' = "spawn"
  /\ UNCHANGED <<clientVars, conn, version, status, result, readerVars, pollerVars,
                 callbackVars, crashed>>

\* go client.readData(errChannel, action); go client.loop()
DialSpawn ==
  /\ ~crashed
  /\ dialPc = "spawn"
  /\ rdPc' = "read"
  /\ pollPc' = "sleep"
  /\ dialPc' = "waiting"
  /\ UNCHANGED <<clientVars, conn, version, status, result, rdErr, rdAfter, cur, buffer,
                 rdOut, nread, pollOut, npolls, lastWrite, callbackVars, crashed>>

\* status := <-errChannel: the blocked send of readData is taken, and
\* readData goes on after its send (a header it is done with is dropped).
DialReceive ==
  /\ ~crashed
  /\ dialPc = "waiting"
  /\ rdPc = "send"
  /\ status' = rdErr
  /\ rdPc' = rdAfter
  /\ rdErr' = "none"
  /\ rdAfter' = "none"
  /\ cur' = IF rdAfter = "body" THEN cur ELSE NoPDU
  /\ dialPc' = "closing"
  /\ UNCHANGED <<clientVars, conn, version, result, buffer, rdOut, nread,
                 pollerVars, lastWrite, callbackVars, crashed>>

\* A mutant of DialResult: Dial returns its named result err, nil after a
\* successful connect.
DialResultErr(st) == "nil"

\* return status
DialResult(st) == st

\* A mutant of DeferredClose: Close is called nowhere.
DeferredCloseMissing(c) == c

\* defer client.connection.Close(): the connection once Dial has returned.
DeferredClose(c) == "closed"

\* return status, and the deferred client.connection.Close().
DialClose ==
  /\ ~crashed
  /\ dialPc = "closing"
  /\ conn' = DeferredClose(conn)
  /\ result' = DialResult(status)
  /\ dialPc' = "returned"
  /\ UNCHANGED <<clientVars, version, status, readerVars, pollerVars, lastWrite,
                 callbackVars, crashed>>

---------------------------------------------------------------------------
(* readData: the frame reader                                              *)

\* comm <- err: readData blocks until Dial receives.
GoSend(err, after) ==
  /\ rdPc' = "send"
  /\ rdErr' = err
  /\ rdAfter' = after
  /\ UNCHANGED <<cur, rdOut>>

\* The top of the for loop: the next header is read.
GoRead ==
  /\ rdPc' = "read"
  /\ cur' = NoPDU
  /\ rdOut' = NoQuery
  /\ UNCHANGED <<rdErr, rdAfter>>

\* client.resetQuery() or client.serialQuery() of readData: the buffer is
\* built, Write is next.
GoWrite(q) ==
  /\ rdPc' = "write"
  /\ rdOut' = q
  /\ UNCHANGED <<rdErr, rdAfter, cur>>

\* A goroutine panics.
Panic ==
  /\ crashed' = TRUE
  /\ UNCHANGED <<clientVars, conn, dialVars, readerVars, pollerVars, lastWrite,
                 callbackVars>>

\* action(Event{desc, prefix}, *client): the callback gets a copy of the
\* client record as it is at the call. The callback of the model keeps the
\* Client value of the first call it gets.
Call(desc, prefix, sid, serial) ==
  /\ lastEvent' = [desc |-> desc, prefix |-> prefix, sid |-> sid, serial |-> serial]
  /\ ncalls' = ncalls + 1
  /\ held' = IF held.desc = "none" THEN lastEvent' ELSE held

\* What the fields of a Client value `state` the callback was given read
\* now. *client copies the struct, so state.SessionID and state.SerialNo
\* are the client's own pointers: nil if they were nil at the call, and
\* else the one uint16 / uint32 that readData allocated for this Dial and
\* assigns through.
SnapshotSessionID(state) == IF state.sid = Nil THEN Nil ELSE SessionID
SnapshotSerialNo(state) == IF state.serial = Nil THEN Nil ELSE SerialNo

\* The header loop's Read fails (lines 102-106): the error is sent, and the
\* loop is left with total < hEADERSIZE.
ReadHeaderFails ==
  /\ ~crashed
  /\ rdPc = "read"
  /\ GoSend("header read error", "shortheader")
  /\ UNCHANGED <<clientVars, conn, dialVars, buffer, nread, pollerVars, lastWrite,
                 callbackVars, crashed>>

\* total < hEADERSIZE after the header loop, total < length-hEADERSIZE after
\* the payload loop: a second error is sent, then the for loop is left.
ShortRead ==
  /\ ~crashed
  /\ rdPc \in {"shortheader", "shortdata"}
  /\ GoSend(IF rdPc = "shortheader" THEN "short header" ELSE "short data", "done")
  /\ UNCHANGED <<clientVars, conn, dialVars, buffer, nread, pollerVars, lastWrite,
                 callbackVars, crashed>>

\* Stands for the uint values 2^64-8 .. 2^64-1, which length-hEADERSIZE
\* wraps to when length < hEADERSIZE: more than make can allocate.
WrappedSize == 2147483647

\* length-hEADERSIZE in uint arithmetic.
PayloadSize(length) ==
  IF length >= hEADERSIZE THEN length - hEADERSIZE ELSE WrappedSize

\* make([]byte, n) panics when n is out of range.
MakePanics(n) == n >= WrappedSize

\* The header is read (lines 101-118), the version octet checked, and the
\* payload of length-hEADERSIZE octets read into a new buffer (lines
\* 119-133); with no payload the buffer of the PDU before stays. When make
\* panics the header is in headerbuffer.
ReadPDU ==
  /\ ~crashed
  /\ rdPc = "read"
  /\ conn = "open"
  /\ nread < MaxPDUs
  /\ nread' = nread + 1
  /\ \E ver \in Versions, type \in PduTypes, sid \in SessionIDs :
     \E length \in Lengths(type) :
       IF ver # protocolVersion
         THEN \* the type and the length are not decoded yet
              /\ rdPc' = "send"
              /\ rdErr' = "invalid protocol"
              /\ rdAfter' = "done"
              /\ cur' = [NoPDU EXCEPT !.ver = ver]
              /\ UNCHANGED <<rdOut, buffer, crashed>>
       ELSE IF PayloadSize(length) > 0 /\ MakePanics(PayloadSize(length))
         THEN /\ crashed' = TRUE
              /\ cur' = [type |-> type, sid |-> sid, length |-> length, ver |-> ver]
              /\ UNCHANGED <<rdPc, rdErr, rdAfter, rdOut, buffer>>
       ELSE IF PayloadSize(length) > 0
         THEN \/ /\ \E w \in Words :
                      buffer' = [size |-> PayloadSize(length), word0 |-> w]
                 /\ rdPc' = "dispatch"
                 /\ cur' = [type |-> type, sid |-> sid, length |-> length, ver |-> ver]
                 /\ UNCHANGED <<rdErr, rdAfter, rdOut, crashed>>
              \/ /\ GoSend("data read error", "shortdata")
                 /\ UNCHANGED <<buffer, crashed>>
       ELSE /\ rdPc' = "dispatch"
            /\ cur' = [type |-> type, sid |-> sid, length |-> length, ver |-> ver]
            /\ UNCHANGED <<rdErr, rdAfter, rdOut, buffer, crashed>>
  /\ UNCHANGED <<clientVars, conn, dialVars, pollerVars, lastWrite, callbackVars>>

\* A mutant of checkLength: the error is returned to the caller as well.
checkLengthReturns(length, expected) ==
  [sent |-> length # expected, err |-> length # expected]

\* checkLength: on a mismatch the error is sent on comm; the err assigned
\* is a new variable of the if block, so the result err is nil always.
checkLength(length, expected) ==
  [sent |-> length # expected, err |-> FALSE]

\* A case of the switch that starts with checkLength: on a mismatch the
\* error is sent first; the case breaks if checkLength returned an error
\* and goes on with its body otherwise.
Checked(expected, Body) ==
  IF rdPc = "dispatch" /\ checkLength(cur.length, expected).sent
    THEN /\ GoSend("wrong length",
                   IF checkLength(cur.length, expected).err THEN "read" ELSE "body")
         /\ UNCHANGED <<clientVars, conn, dialVars, buffer, nread, pollerVars,
                        lastWrite, callbackVars, crashed>>
    ELSE Body

\* The session-id rule of Serial Notify and Cache Response: "adopt" when
\* the client has none, "ok" on equality, "mismatch" otherwise.
SessionCheck(stored, sessionID) ==
  IF stored = Nil THEN "adopt"
  ELSE IF stored # sessionID THEN "mismatch" ELSE "ok"

\* A mutant of SerialNotifyQuery: a Reset Query whenever the serial differs.
SerialNotifyQueryReset(stored, serialNo) ==
  IF stored = Nil \/ serialNo # stored THEN "reset" ELSE "none"

\* The query Serial Notify is answered by (lines 155-159).
SerialNotifyQuery(stored, serialNo) ==
  IF stored = Nil THEN "reset"
  ELSE IF serialNo # stored THEN "serial" ELSE "none"

\* A mutant of CacheResetQuery: a Serial Query when the serial is known.
CacheResetQuerySerial(stored) == IF stored = Nil THEN "reset" ELSE "serial"

\* The query Cache Reset is answered by (line 226).
CacheResetQuery(stored) == "reset"

\* serialQuery's buffer for the session id and serial given.
SerialQueryOf(sid, serial) ==
  [type |-> sERIALQUERY, ver |-> protocolVersion, sid |-> sid,
   length |-> sERIALQUERYSIZE, serial |-> serial, off |-> 0]

\* How a call of serialQuery starts: it returns an error when the serial is
\* nil, dereferences client.SessionID (a panic when nil), or goes to Write.
serialQueryStart(sid, serial) ==
  IF serial = Nil THEN "error" ELSE IF sid = Nil THEN "panic" ELSE "write"

\* readData issues the query `which` for the client record (sid, serial)
\* and goes on to the next header.
Answer(which, sid, serial) ==
  IF which = "reset" THEN GoWrite(ResetQueryPDU) /\ crashed' = crashed
  ELSE IF which = "none" \/ serialQueryStart(sid, serial) = "error"
    THEN GoRead /\ crashed' = crashed
  ELSE IF serialQueryStart(sid, serial) = "panic"
    THEN crashed' = TRUE /\ UNCHANGED <<rdPc, rdErr, rdAfter, cur, rdOut>>
  ELSE GoWrite(SerialQueryOf(sid, serial)) /\ crashed' = crashed

\* A mutant of StoredSerial: Serial Notify stores the serial it announces.
StoredSerialNotify(type, stored, word0) ==
  IF type \in {eNDOFDATA, sERIALNOTIFY} THEN word0 ELSE stored

\* client.SerialNo after the case of a PDU of `type` whose payload starts
\* with word0: End of Data stores it (lines 212-215), no other case assigns.
StoredSerial(type, stored, word0) ==
  IF type = eNDOFDATA THEN word0 ELSE stored


\* case sERIALNOTIFY (lines 138-159).
SerialNotifyBody ==
  IF SessionCheck(SessionID, cur.sid) = "mismatch"
    THEN /\ GoSend("Serial Notify wrong session ID", "read")
         /\ UNCHANGED <<clientVars, conn, dialVars, buffer, nread, pollerVars,
                        lastWrite, callbackVars, crashed>>
  ELSE IF buffer.size < 4 \/ SerialNo = Nil
    THEN \* buffer[0:4] out of range (line 153), or *client.SerialNo with a
         \* nil pointer (line 154), after the session id was adopted
         /\ SessionID' = cur.sid
         /\ crashed' = TRUE
         /\ UNCHANGED <<SerialNo, protocolVersion, conn, dialVars, readerVars,
                        pollerVars, lastWrite, callbackVars>>
  ELSE /\ SessionID' = cur.sid
       /\ SerialNo' = StoredSerial(cur.type, SerialNo, buffer.word0)
       /\ protocolVersion' = protocolVersion
       /\ Call("Serial Notify", FALSE, cur.sid, SerialNo)
       /\ Answer(SerialNotifyQuery(SerialNo, buffer.word0), cur.sid, SerialNo')
       /\ UNCHANGED <<conn, dialVars, buffer, nread, pollerVars, lastWrite>>

SerialNotify ==
  /\ ~crashed
  /\ rdPc \in {"dispatch", "body"}
  /\ cur.type = sERIALNOTIFY
  /\ Checked(ExpectedLength(cur.type), SerialNotifyBody)

\* case cACHERESPONSE (lines 160-175).
CacheResponseBody ==
  IF SessionCheck(SessionID, cur.sid) = "mismatch"
    THEN /\ GoSend("Cache Response wrong session ID", "read")
         /\ UNCHANGED <<clientVars, conn, dialVars, buffer, nread, pollerVars,
                        lastWrite, callbackVars, crashed>>
  ELSE /\ SessionID' = cur.sid
       /\ SerialNo' = StoredSerial(cur.type, SerialNo, buffer.word0)
       /\ protocolVersion' = protocolVersion
       /\ Call("Cache Response", FALSE, cur.sid, SerialNo')
       /\ GoRead
       /\ UNCHANGED <<conn, dialVars, buffer, nread, pollerVars, lastWrite, crashed>>

CacheResponse ==
  /\ ~crashed
  /\ rdPc \in {"dispatch", "body"}
  /\ cur.type = cACHERESPONSE
  /\ Checked(ExpectedLength(cur.type), CacheResponseBody)

\* cases iPv4PREFIX and iPv6PREFIX (lines 176-205): the payload is indexed
\* up to octet `need`.
PrefixBody(need) ==
  IF buffer.size < need
    THEN Panic
  ELSE /\ SerialNo' = StoredSerial(cur.type, SerialNo, buffer.word0)
       /\ UNCHANGED <<SessionID, protocolVersion>>
       /\ Call("Prefix", TRUE, SessionID, SerialNo')
       /\ GoRead
       /\ UNCHANGED <<conn, dialVars, buffer, nread, pollerVars, lastWrite, crashed>>

IPv4Prefix ==
  /\ ~crashed
  /\ rdPc \in {"dispatch", "body"}
  /\ cur.type = iPv4PREFIX
  /\ Checked(ExpectedLength(cur.type), PrefixBody(12))

IPv6Prefix ==
  /\ ~crashed
  /\ rdPc \in {"dispatch", "body"}
  /\ cur.type = iPv6PREFIX
  /\ Checked(ExpectedLength(cur.type), PrefixBody(24))

\* case eNDOFDATA (lines 206-218): the session id is not looked at.
EndOfDataBody ==
  IF buffer.size < 4
    THEN Panic
  ELSE /\ SerialNo' = StoredSerial(cur.type, SerialNo, buffer.word0)
       /\ UNCHANGED <<SessionID, protocolVersion>>
       /\ Call("(Temporary) End of Data", FALSE, SessionID, SerialNo')
       /\ GoRead
       /\ UNCHANGED <<conn, dialVars, buffer, nread, pollerVars, lastWrite, crashed>>

EndOfData ==
  /\ ~crashed
  /\ rdPc \in {"dispatch", "body"}
  /\ cur.type = eNDOFDATA
  /\ Checked(ExpectedLength(cur.type), EndOfDataBody)

\* case cACHERESET (lines 219-226).
CacheResetBody ==
  /\ SerialNo' = StoredSerial(cur.type, SerialNo, buffer.word0)
  /\ UNCHANGED <<SessionID, protocolVersion>>
  /\ Call("Cache reset", FALSE, SessionID, SerialNo')
  /\ Answer(CacheResetQuery(SerialNo'), SessionID, SerialNo')
  /\ UNCHANGED <<conn, dialVars, buffer, nread, pollerVars, lastWrite>>

CacheReset ==
  /\ ~crashed
  /\ rdPc \in {"dispatch", "body"}
  /\ cur.type = cACHERESET
  /\ Checked(ExpectedLength(cur.type), CacheResetBody)

\* A mutant of RouterKeyAllowed: Router Key is accepted under any version.
RouterKeyAllowedAlways(v) == TRUE

\* Router Key is refused when protocolVersion <= 0 (line 228).
RouterKeyAllowed(v) == ~(v <= 0)

\* case rOUTERKEY (lines 227-232): no length is checked.
RouterKey ==
  /\ ~crashed
  /\ rdPc = "dispatch"
  /\ cur.type = rOUTERKEY
  /\ IF ~RouterKeyAllowed(protocolVersion)
       THEN /\ GoSend("invalid Router Key", "read")
            /\ UNCHANGED callbackVars
       ELSE /\ Call("Router Key (ignored)", FALSE, SessionID, SerialNo)
            /\ GoRead
  /\ UNCHANGED <<clientVars, conn, dialVars, buffer, nread, pollerVars, lastWrite,
                 crashed>>

\* case eRRORREPORT (lines 233-239): the payload's first word is the length
\* of the erroneous PDU, the text length follows that PDU; the slices panic
\* when they pass the end of the buffer.
ErrorReport ==
  /\ ~crashed
  /\ rdPc = "dispatch"
  /\ cur.type = eRRORREPORT
  /\ \E lengthText \in TextLens :
       IF buffer.size < 8 + buffer.word0 + lengthText
         THEN Panic
         ELSE /\ GoSend("Error Report", "read")
              /\ UNCHANGED <<clientVars, conn, dialVars, buffer, nread, pollerVars,
                             lastWrite, callbackVars, crashed>>

\* default (lines 240-242).
UnknownPDU ==
  /\ ~crashed
  /\ rdPc = "dispatch"
  /\ cur.type \notin {sERIALNOTIFY, cACHERESPONSE, iPv4PREFIX, iPv6PREFIX,
                      eNDOFDATA, cACHERESET, rOUTERKEY, eRRORREPORT}
  /\ GoSend("unknown PDU type", "read")
  /\ UNCHANGED <<clientVars, conn, dialVars, buffer, nread, pollerVars, lastWrite,
                 callbackVars, crashed>>

\* connection.Write of resetQuery or serialQuery called by readData; the
\* result of the query is dropped (lines 156, 158, 226).
ReaderWrite ==
  /\ ~crashed
  /\ rdPc = "write"
  /\ \E w \in WriteOutcomes("reader", rdOut) :
       /\ lastWrite' = w
       /\ IF MoreCalls(rdOut, w)
            THEN /\ rdOut' = [rdOut EXCEPT !.off = w.from + w.n]
                 /\ UNCHANGED <<rdPc, rdErr, rdAfter, cur>>
            ELSE GoRead
  /\ UNCHANGED <<clientVars, conn, dialVars, buffer, nread, pollerVars,
                 callbackVars, crashed>>

---------------------------------------------------------------------------
(* loop: the poller                                                        *)

\* time.Sleep(sLEEPTIME) ends and serialQuery is called (lines 282-283,
\* 249-257): with no serial it returns an error and loop returns.
PollWake ==
  /\ ~crashed
  /\ pollPc = "sleep"
  /\ npolls < MaxPolls
  /\ npolls' = npolls + 1
  /\ IF serialQueryStart(SessionID, SerialNo) = "error"
       THEN /\ pollPc' = "done"
            /\ UNCHANGED <<pollOut, crashed>>
     ELSE IF serialQueryStart(SessionID, SerialNo) = "panic"
       THEN /\ crashed' = TRUE
            /\ UNCHANGED <<pollPc, pollOut>>
     ELSE /\ pollPc' = "write"
          /\ pollOut' = SerialQueryOf(SessionID, SerialNo)
          /\ crashed' = crashed
  /\ UNCHANGED <<clientVars, conn, dialVars, readerVars, lastWrite, callbackVars>>

\* connection.Write of the poller's serialQuery (lines 258-262): on a
\* failure serialQuery returns an error and loop returns (lines 284-286);
\* nothing is sent on the error channel.
PollWrite ==
  /\ ~crashed
  /\ pollPc = "write"
  /\ \E w \in WriteOutcomes("poller", pollOut) :
       /\ lastWrite' = w
       /\ IF MoreCalls(pollOut, w)
            THEN /\ pollOut' = [pollOut EXCEPT !.off = w.from + w.n]
                 /\ pollPc' = pollPc
            ELSE /\ pollOut' = NoQuery
                 /\ pollPc' = IF QueryFailed(w) THEN "done" ELSE "sleep"
  /\ UNCHANGED <<clientVars, conn, dialVars, readerVars, npolls, callbackVars,
                 crashed>>

---------------------------------------------------------------------------

\* The steps of a running session: Dial waits on errChannel, readData and
\* loop run.
Session ==
  \/ DialReceive
  \/ DialClose
  \/ ReadHeaderFails
  \/ ShortRead
  \/ ReadPDU
  \/ SerialNotify
  \/ CacheResponse
  \/ IPv4Prefix
  \/ IPv6Prefix
  \/ EndOfData
  \/ CacheReset
  \/ RouterKey
  \/ ErrorReport
  \/ UnknownPDU
  \/ ReaderWrite
  \/ PollWake
  \/ PollWrite

Next ==
  \/ DialConnect
  \/ DialResetQuery
  \/ DialSpawn
  \/ Session

\* One call of Dial on a new Client.
Spec == Init /\ [][Next]_vars

\* Dial of another Client of the process, called with the other version:
\* it assigns the package variable protocolVersion (line 298). Its
\* connection and its goroutines are its own.
OtherDial ==
  /\ ~crashed
  /\ \E v \in Versions : v # protocolVersion /\ protocolVersion' = v
  /\ UNCHANGED <<SessionID, SerialNo, conn, dialVars, readerVars, pollerVars,
                 lastWrite, callbackVars, crashed>>

ConcurrentNext ==
  \/ Next
  \/ OtherDial

\* One call of Dial on a Client while other Clients of the process call
\* Dial.
Concurrent == Init /\ [][ConcurrentNext]_vars

\* A session in which Dial connected and wrote its Reset Query, and the
\* cache answered with a Cache Response and an End of Data: the session id
\* and the serial are known, Dial waits, readData is about to read the next
\* header and loop sleeps.
EstablishedInit ==
  /\ SessionID \in SessionIDs
  /\ SerialNo \in Words
  /\ protocolVersion \in Versions
  /\ conn = "open"
  /\ dialPc = "waiting"
  /\ version = protocolVersion
  /\ status = "none"
  /\ result = "none"
  /\ rdPc = "read"
  /\ rdErr = "none"
  /\ rdAfter = "none"
  /\ cur = NoPDU
  /\ buffer = [size |-> 12 - hEADERSIZE, word0 |-> SerialNo]
  /\ rdOut = NoQuery
  /\ nread = 0
  /\ pollPc = "sleep"
  /\ pollOut = NoQuery
  /\ npolls = 0
  /\ lastWrite = [by |-> "dial", type |-> rESETQUERY, ver |-> protocolVersion,
                  sid |-> 0, serial |-> 0, from |-> 0, n |-> rESETQUERYSIZE,
                  size |-> rESETQUERYSIZE, err |-> FALSE]
  /\ lastEvent = [desc |-> "(Temporary) End of Data", prefix |-> FALSE,
                  sid |-> SessionID, serial |-> SerialNo]
  /\ ncalls = 0
  /\ held = lastEvent
  /\ crashed = FALSE

Established == EstablishedInit /\ [][Session]_vars

---------------------------------------------------------------------------
(* Properties                                                              *)

\* readData holds a PDU of `type` it has read and not yet left behind.
InHand(type) ==
  /\ rdPc \in {"dispatch", "body", "send", "write"}
  /\ cur.type = type

\* The step is a call of Write by readData, by loop.
ReaderWrote == rdPc = "write" /\ rdOut' # rdOut
PollerWrote == pollPc = "write" /\ pollOut' # pollOut

\* The step puts a whole PDU on the wire.
WrotePDU == (ReaderWrote \/ PollerWrote) /\ ~lastWrite'.err

\* Dial has received from errChannel.
Reported == status # "none"

\* C1: once the session id is adopted, a Serial Notify, Cache Response or
\* End of Data whose header carries another session id is not accepted: no
\* callback runs for it and it stores no serial.
C1_SessionIdMismatchRejected ==
  [][ ( /\ rdPc \in {"dispatch", "body"}
        /\ cur.type \in {sERIALNOTIFY, cACHERESPONSE, eNDOFDATA}
        /\ SessionID # Nil
        /\ cur.sid # SessionID )
      => (ncalls' = ncalls /\ SerialNo' = SerialNo) ]_vars

\* C2 as stated: while readData holds a Cache Reset, whatever PDU is put on
\* the wire next, by readData or by loop, is a Reset Query.
C2_NextWrittenIsResetQuery ==
  [][ (InHand(cACHERESET) /\ WrotePDU) => lastWrite'.type = rESETQUERY ]_vars

\* C2 as amended: once the callback has run for a Cache Reset, readData
\* goes to write a Reset Query, and the next call of Write readData makes
\* is for a Reset Query.
C2_ReaderAnswersCacheReset ==
  [][ /\ (InHand(cACHERESET) /\ ncalls' = ncalls + 1)
           => (rdPc' = "write" /\ rdOut' = ResetQueryPDU)
      /\ (InHand(cACHERESET) /\ ReaderWrote)
           => ( /\ lastWrite'.by = "reader"
                /\ lastWrite'.type = rESETQUERY
                /\ lastWrite'.ver = protocolVersion
                /\ lastWrite'.size = rESETQUERYSIZE ) ]_vars

\* readData has answered a Cache Reset with a Reset Query on the wire.
C2_Witness ==
  /\ lastEvent.desc = "Cache reset"
  /\ lastWrite.by = "reader"
  /\ lastWrite.type = rESETQUERY
  /\ ~lastWrite.err
  /\ lastWrite.n = rESETQUERYSIZE

\* C3 as stated: while readData holds a Serial Notify that announces a
\* serial other than the stored one, whatever PDU is put on the wire next
\* is a Serial Query with the stored session id and the stored serial.
C3_NextWrittenIsSerialQuery ==
  [][ ( /\ InHand(sERIALNOTIFY)
        /\ SerialNo # Nil
        /\ buffer.size >= 4
        /\ buffer.word0 # SerialNo
        /\ WrotePDU )
      => ( /\ lastWrite'.type = sERIALQUERY
           /\ lastWrite'.sid = SessionID
           /\ lastWrite'.serial = SerialNo ) ]_vars

\* C3 as amended: once the callback has run for a Serial Notify (its
\* session id was accepted) that announces a serial other than the stored
\* one, readData goes to write a Serial Query with the stored session id
\* and serial, and the next call of Write readData makes is for it.
C3_ReaderAnswersSerialNotify ==
  [][ /\ (InHand(sERIALNOTIFY) /\ ncalls' = ncalls + 1 /\ buffer.word0 # SerialNo)
           => (rdPc' = "write" /\ rdOut' = SerialQueryOf(SessionID', SerialNo))
      /\ (InHand(sERIALNOTIFY) /\ ReaderWrote)
           => ( /\ lastWrite'.by = "reader"
                /\ lastWrite'.type = sERIALQUERY
                /\ lastWrite'.sid = SessionID
                /\ lastWrite'.serial = SerialNo ) ]_vars

\* readData has answered a Serial Notify with a Serial Query on the wire
\* that carries the stored session id and serial.
C3_Witness ==
  /\ lastEvent.desc = "Serial Notify"
  /\ lastWrite.by = "reader"
  /\ lastWrite.type = sERIALQUERY
  /\ ~lastWrite.err
  /\ lastWrite.sid = SessionID
  /\ lastWrite.serial = SerialNo

\* C4: when loop has returned (its serialQuery failed), the failure has
\* reached Dial: Dial has received from the error channel.
C4_PollerFailureReachesDial ==
  pollPc = "done" => dialPc \in {"closing", "returned"}

\* C5: after a failed or partial Write of a query by Dial or by readData
\* the session is ending: Dial is returning, or the error is being sent to
\* it.
C5_FailedWriteEndsSession ==
  /\ (lastWrite.by = "dial" /\ lastWrite.err)
       => dialPc \in {"closing", "returned"}
  /\ (lastWrite.by = "reader" /\ lastWrite.err)
       => (rdPc = "send" \/ dialPc \in {"closing", "returned"})

\* C6: once Dial has returned, readData is not blocked sending on the error
\* channel (nothing receives from it any more).
C6_NotBlockedAfterReturn ==
  dialPc = "returned" => rdPc # "send"

\* C7: once readData's error has been received, readData reads no further
\* header (and so runs the callback for no later PDU).
C7_NothingAfterFatalError ==
  [][ Reported => nread' = nread ]_vars

\* C8: every call of Write hands the connection a whole query: it starts
\* at the query's first octet and, unless it fails, ends at its last. Since
\* the connection serialises the calls, the octets of two queries never
\* interleave.
C8_OneWritePerQuery ==
  lastWrite.by # "none" =>
    /\ lastWrite.from = 0
    /\ lastWrite.size = (IF lastWrite.type = sERIALQUERY THEN sERIALQUERYSIZE
                         ELSE rESETQUERYSIZE)
    /\ (~lastWrite.err => lastWrite.n = lastWrite.size)

\* loop has put a Serial Query on the wire while readData was about to
\* write a query of its own.
C8_Witness ==
  /\ lastWrite.by = "poller"
  /\ ~lastWrite.err
  /\ lastWrite.n = sERIALQUERYSIZE
  /\ rdPc = "write"
  /\ dialPc = "waiting"

\* C9: Dial leaves its wait only by receiving the error readData is
\* sending, and after a successful connect it returns that error, never
\* nil.
C9_DialReturnsReportedError ==
  /\ [][ (dialPc = "waiting" /\ dialPc' # "waiting")
           => (rdPc = "send" /\ rdErr # "none" /\ status' = rdErr) ]_vars
  /\ []( (dialPc = "returned" /\ conn # "none")
           => (result = status /\ result \notin {"none", "nil"}) )

\* Dial has returned the session-id error of a Cache Response.
C9_Witness ==
  /\ dialPc = "returned"
  /\ conn = "closed"
  /\ result = "Cache Response wrong session ID"

\* C10: a step that changes client.SerialNo is readData's case for an End
\* of Data, and stores the serial of its payload.
C10_SerialChangedByEndOfDataOnly ==
  [][ SerialNo' # SerialNo
        => ( /\ rdPc \in {"dispatch", "body"}
             /\ cur.type = eNDOFDATA
             /\ SerialNo' = buffer.word0
             /\ pollPc' = pollPc ) ]_vars

\* A Cache Response was handled after an End of Data had stored a serial,
\* and the serial is still the stored one.
C10_Witness ==
  /\ SerialNo # Nil
  /\ lastEvent.desc = "Cache Response"
  /\ lastEvent.serial = SerialNo
  /\ npolls > 0

\* C11: the Client value a callback was given is a snapshot: its session id
\* and its serial read, at any later time, as they were when the event was
\* emitted, whatever End of Data PDUs have been handled since.
C11_SnapshotKeepsValues ==
  held.desc # "none" =>
    /\ SnapshotSessionID(held) = held.sid
    /\ SnapshotSerialNo(held) = held.serial

\* The header c is of a fixed-length type and its length field is not the
\* length readData expects for the type.
WrongLength(c) ==
  ExpectedLength(c.type) # 0 /\ c.length # ExpectedLength(c.type)

\* C12: a PDU of a fixed-length type whose length field is not the expected
\* one ends the session with an error: reading it does not bring the
\* process down, and the dispatcher sends the length error to Dial.
C12_WrongLengthEndsSession ==
  [][ /\ (rdPc = "read" /\ WrongLength(cur')) => ~crashed'
      /\ (rdPc = "dispatch" /\ WrongLength(cur) /\ rdPc' # rdPc)
           => (rdPc' = "send" /\ rdErr' = "wrong length") ]_vars

\* C13: whenever Dial has returned after a successful connect, the
\* connection it opened is closed.
C13_ClosedOnEveryReturn ==
  (dialPc = "returned" /\ result # "connect error") => conn = "closed"

\* Dial has returned the length error readData sent, and the connection is
\* closed.
C13_Witness ==
  /\ dialPc = "returned"
  /\ result = "wrong length"
  /\ conn = "closed"

\* C14: a header whose length field is above mAXSIZE is rejected: no
\* payload buffer of such a PDU is allocated, and the dispatcher is never
\* handed such a PDU.
C14_OversizedRejected ==
  /\ buffer.size + hEADERSIZE <= mAXSIZE
  /\ (rdPc \in {"dispatch", "body"} => cur.length <= mAXSIZE)

\* C15: a Serial Notify of the right length and an acceptable session id
\* that is dispatched while client.SerialNo is nil does not make readData
\* fail: the session id is adopted, the callback runs for the Serial Notify
\* and readData goes to write a Reset Query.
C15_SerialNotifyWithoutSerial ==
  [][ ( /\ rdPc = "dispatch"
        /\ cur.type = sERIALNOTIFY
        /\ cur.length = ExpectedLength(sERIALNOTIFY)
        /\ SerialNo = Nil
        /\ SessionCheck(SessionID, cur.sid) # "mismatch"
        /\ (rdPc' # rdPc \/ crashed') )
      => ( /\ ~crashed'
           /\ SessionID' = cur.sid
           /\ ncalls' = ncalls + 1
           /\ lastEvent'.desc = "Serial Notify"
           /\ rdPc' = "write"
           /\ rdOut' = ResetQueryPDU ) ]_vars

\* C16: serialQuery is never attempted with a nil session id: when the
\* poller's sleep ends with a serial stored, the session id is set and the
\* call does not fail on it; and every Serial Query handed to Write carries
\* a session id and a serial that are set.
C16_SerialQueryHasSessionID ==
  /\ [][ (npolls' = npolls + 1 /\ SerialNo # Nil)
           => (SessionID # Nil /\ ~crashed') ]_vars
  /\ []( lastWrite.type = sERIALQUERY
           => (lastWrite.sid # Nil /\ lastWrite.serial # Nil) )

\* C17: the dispatcher accepts an End of Data (it stores the serial, runs
\* the callback and goes on to the next header, with no error sent) when
\* and only when its length is the one of the protocol version: 12 under
\* version 0, 24 under version 1.
C17_EndOfDataLengthByVersion ==
  [][ ( /\ rdPc = "dispatch"
        /\ cur.type = eNDOFDATA
        /\ rdPc' # rdPc )
      => IF cur.length = (IF protocolVersion = 0 THEN 12 ELSE 24)
           THEN /\ rdPc' = "read"
                /\ SerialNo' = buffer.word0
                /\ ncalls' = ncalls + 1
           ELSE /\ rdPc' = "send"
                /\ rdErr' = "wrong length" ]_vars

\* C18: the dispatcher's step for a Router Key: in a session of version 0
\* it sends an error to Dial and runs no callback; in a session of version
\* 1 it runs the callback with an event that is no prefix, leaves the
\* session id and the serial as they are, writes no query and goes on to
\* the next header.
C18_RouterKeyByVersion ==
  [][ ( /\ rdPc = "dispatch"
        /\ cur.type = rOUTERKEY
        /\ rdPc' # rdPc )
      => IF version = 0
           THEN /\ rdPc' = "send"
                /\ rdErr' = "invalid Router Key"
                /\ UNCHANGED <<SessionID, SerialNo, callbackVars, lastWrite>>
           ELSE /\ rdPc' = "read"
                /\ ncalls' = ncalls + 1
                /\ lastEvent'.desc = "Router Key (ignored)"
                /\ ~lastEvent'.prefix
                /\ rdOut' = NoQuery
                /\ UNCHANGED <<SessionID, SerialNo, lastWrite>> ]_vars

\* A Router Key was accepted in a session of version 1 that had adopted a
\* session id, and readData is back at the top of its loop.
C18_Witness ==
  /\ version = 1
  /\ SessionID # Nil
  /\ lastEvent.desc = "Router Key (ignored)"
  /\ lastEvent.sid = SessionID
  /\ rdPc = "read"
  /\ dialPc = "waiting"

\* C19: a PDU for which the dispatcher reports an error has no other
\* effect: neither the step that reports it nor any step while readData
\* still holds the PDU runs the callback, changes the session id or the
\* serial, or starts a query.
C19_ReportedPDUHasNoEffect ==
  [][ ( \/ rdPc = "dispatch" /\ rdPc' = "send"
        \/ rdPc = "send" /\ rdAfter = "body"
        \/ rdPc = "body" )
      => ( /\ UNCHANGED <<SessionID, SerialNo, callbackVars>>
           /\ rdPc' # "write"
           /\ rdOut' = rdOut ) ]_vars

\* C20: the protocol version is the session's own, whatever other sessions
\* of the process use: every query the session hands to Write carries the
\* version its Dial was called with, a header readData refuses as "invalid
\* protocol" has a version octet other than that version, and a header it
\* goes on to decode has that version.
C20_VersionPerSession ==
  /\ []( lastWrite.by # "none" => lastWrite.ver = version )
  /\ [][ (rdPc = "read" /\ nread' = nread + 1)
           => ( /\ rdErr' = "invalid protocol" => cur'.ver # version
                /\ cur'.type # NoPDU.type => cur'.ver = version ) ]_vars

===========================================================================
